---- MODULE Spec2Model ----
(***************************************************************************)
(* Model of the checkpoint synchronisation protocol of ccot-verl:          *)
(*   checkpoint_monitor.py   poll loop, uploader, branch retention         *)
(*   resume_model_from_hf.py resolver (discovery of the latest version)    *)
(* Names are sequences of one-character strings so that the length, index  *)
(* and ordering tests of the code are computed as the code computes them.  *)
(***************************************************************************)
EXTENDS Integers, Sequences, FiniteSets, TLC

VARIABLES
    pc,                 \* position of the monitor / uploader / retention pass
    last_step,          \* monitor_checkpoints: last_step
    current_step,       \* monitor_checkpoints: current_step
    step,               \* upload_checkpoint_to_hf: step, the argument of the last call
    branch_name,        \* upload_checkpoint_to_hf: branch_name
    outcome,            \* how the last uploader invocation ended
    trace,              \* remote steps of the current uploader invocation
    timestamp_branches, \* _cleanup_old_branches: sorted timestamp_branches
    to_delete,          \* _cleanup_old_branches: part of to_delete still to visit
    keep_count,         \* _cleanup_old_branches: keep_count
    pass,               \* record of the last retention pass (before/failed)
    clock,              \* wall clock, seconds after the base instant
    repo_exists,        \* the repository hf_user/repo_name exists
    branches,           \* branch name -> set of file names (non-main branches)
    models,             \* other repositories of hf_user: modelId -> files on main
    rpc,                \* position of the resolver
    repos,              \* find_valid_timestamped_repos: rest of the iteration
    valid_repos,        \* find_valid_timestamped_repos: valid_repos
    result,             \* get_latest_timestamped_repo: returned value
    rlog,               \* record of the resolver run (failures, store at start)
    peer,               \* a second monitor on the same series: pc, branch_name, to_delete
    last_version,       \* the identifier made by the latest upload attempt, and its step
    restarts,           \* how many times the monitor was started again
    spc,                \* stop_monitor.py: position of main / stop_process
    pids,               \* main: pids still to stop
    pid,                \* stop_process: pid
    poll_i,             \* stop_process: i of the wait loop
    success_count,      \* main: success_count
    alive,              \* pids of running processes
    permitted,          \* pids the caller may signal
    slog                \* pid -> what stop_process did to it, in order

vars == <<pc, last_step, current_step, step, branch_name, outcome, trace,
          timestamp_branches, to_delete, keep_count, pass, clock,
          repo_exists, branches, models, rpc, repos, valid_repos, result, rlog,
          peer, last_version, restarts, spc, pids, pid, poll_i, success_count, alive, permitted, slog>>

monitor_vars == <<pc, last_step, current_step, step, branch_name, outcome, trace,
                  timestamp_branches, to_delete, keep_count, pass, clock,
                  repo_exists, branches>>

resolver_side == <<models, rpc, repos, valid_repos, result, rlog>>

stop_vars == <<spc, pids, pid, poll_i, success_count, alive, permitted, slog>>

\* what the actions of the first monitor, and those of the resolver, leave alone
beside_monitor == <<resolver_side, peer, last_version, restarts, stop_vars>>
beside_resolver == <<monitor_vars, peer, last_version, restarts, stop_vars>>

----------------------------------------------------------------------------
(* Bounds *)

MaxStep == 3
MaxClock == 3
MaxRepos == 3
MaxRestarts == 1
MaxPids == 2

----------------------------------------------------------------------------
(* Characters and strings *)

Digits == <<"0", "1", "2", "3", "4", "5", "6", "7", "8", "9">>

\* The characters used, in code point order ('-' 45, '/' 47, digits, '_' 95,
\* lower-case letters): Python compares strings by code point.
Alphabet == <<"-", "/">> \o Digits \o <<"_", "a", "i", "m", "n", "r", "u", "x">>

Ord(c) == CHOOSE i \in 1..Len(Alphabet) : Alphabet[i] = c

isdigit(s) == Len(s) > 0 /\ \A i \in 1..Len(s) : \E d \in 1..Len(Digits) : Digits[d] = s[i]

Min(a, b) == IF a < b THEN a ELSE b

\* Python's str.__lt__: first differing character decides, a proper prefix is smaller.
StrLess(a, b) ==
    \E i \in 1..(Min(Len(a), Len(b)) + 1) :
        /\ \A j \in 1..(i - 1) : a[j] = b[j]
        /\ \/ i > Len(a) /\ i <= Len(b)
           \/ i <= Len(a) /\ i <= Len(b) /\ Ord(a[i]) < Ord(b[i])

startswith(s, p) == Len(s) >= Len(p) /\ SubSeq(s, 1, Len(p)) = p

\* s[n:] of Python, n >= 0
DropPrefix(s, n) == SubSeq(s, n + 1, Len(s))

RECURSIVE LastSlash(_, _)
LastSlash(s, i) == IF i = 0 THEN 0 ELSE IF s[i] = "/" THEN i ELSE LastSlash(s, i - 1)

\* modelId.split('/')[-1]
split_last(s) == DropPrefix(s, LastSlash(s, Len(s)))

\* list.sort() on strings / on (suffix, repo_id) pairs by key x[0]; stable insertion
RECURSIVE InsertStr(_, _)
InsertStr(x, s) ==
    IF s = <<>> THEN <<x>>
    ELSE IF StrLess(x, Head(s)) THEN <<x>> \o s
    ELSE <<Head(s)>> \o InsertStr(x, Tail(s))

RECURSIVE sort(_)
sort(s) == IF s = <<>> THEN <<>> ELSE InsertStr(s[Len(s)], sort(SubSeq(s, 1, Len(s) - 1)))

RECURSIVE InsertPair(_, _)
InsertPair(x, s) ==
    IF s = <<>> THEN <<x>>
    ELSE IF StrLess(x[1], Head(s)[1]) THEN <<x>> \o s
    ELSE <<Head(s)>> \o InsertPair(x, Tail(s))

RECURSIVE sort_by_key(_)
sort_by_key(s) ==
    IF s = <<>> THEN <<>> ELSE InsertPair(s[Len(s)], sort_by_key(SubSeq(s, 1, Len(s) - 1)))

----------------------------------------------------------------------------
(* Names and files *)

Main == <<"m", "a", "i", "n">>
hf_user == <<"u">>
repo_name == <<"r", "u", "n">>
repo_id == hf_user \o <<"/">> \o repo_name

FinishCheck == "finish_check.txt"
IterationFile == "latest_checkpointed_iteration.txt"
GitAttributes == ".gitattributes"
FolderName(n) == "global_step_" \o ToString(n)

\* datetime.now().strftime("%Y%m%d_%H%M%S"), the clock counted in seconds from
\* 2025-01-01 12:00:00
TwoDigits(n) == <<Digits[(n \div 10) + 1], Digits[(n % 10) + 1]>>
strftime(t) ==
    LET sod == 43200 + t
    IN  <<"2", "0", "2", "5", "0", "1", "0", "1", "_">>
          \o TwoDigits(sod \div 3600) \o TwoDigits((sod \div 60) % 60) \o TwoDigits(sod % 60)

----------------------------------------------------------------------------
(* Local progress file *)

RECURSIVE IntToStr(_)
IntToStr(n) == IF n < 10 THEN <<Digits[n + 1]>> ELSE IntToStr(n \div 10) \o <<Digits[(n % 10) + 1]>>

RECURSIVE StrToNat(_)
StrToNat(s) ==
    IF s = <<>> THEN 0
    ELSE 10 * StrToNat(SubSeq(s, 1, Len(s) - 1))
           + ((CHOOSE d \in 1..Len(Digits) : Digits[d] = s[Len(s)]) - 1)

IsSpace(c) == c \in {" ", "\n", "\t"}

RECURSIVE lstrip(_)
lstrip(s) == IF s # <<>> /\ IsSpace(Head(s)) THEN lstrip(Tail(s)) ELSE s

RECURSIVE rstrip(_)
rstrip(s) == IF s # <<>> /\ IsSpace(s[Len(s)]) THEN rstrip(SubSeq(s, 1, Len(s) - 1)) ELSE s

strip(s) == rstrip(lstrip(s))

\* the progress file as the tracker finds it: absent, or holding a text
NoFile == [exists |-> FALSE, text |-> <<>>]
File(text) == [exists |-> TRUE, text |-> text]

FileContents ==
    {NoFile, File(<<>>), File(<<"x">>)}
        \cup {File(IntToStr(n) \o <<"\n">>) : n \in 0..MaxStep}

\* read_latest_step: int(content.strip()), -1 when the file is absent or int() raises
read_latest_step(f) ==
    IF ~f.exists THEN -1
    ELSE LET content == strip(f.text)
         IN  IF isdigit(content) THEN StrToNat(content)
             ELSE IF Len(content) > 1 /\ content[1] = "-" /\ isdigit(Tail(content))
                  THEN 0 - StrToNat(Tail(content))
             ELSE IF Len(content) > 1 /\ content[1] = "+" /\ isdigit(Tail(content))
                  THEN StrToNat(Tail(content))
             ELSE -1

----------------------------------------------------------------------------
(* Remote store *)

None == <<>>

EmptyMap == [x \in {} |-> {}]

Put(f, k, v) == [x \in DOMAIN f \cup {k} |-> IF x = k THEN v ELSE f[x]]

Remove(f, k) == [x \in DOMAIN f \ {k} |-> f[x]]

\* api.list_repo_refs(...).branches, as names
list_repo_refs == (IF repo_exists THEN {Main} ELSE {}) \cup DOMAIN branches

\* api.list_models(author=hf_user), as modelIds
list_models == (IF repo_exists THEN {repo_id} ELSE {}) \cup DOMAIN models

\* api.list_repo_files(repo_id=m) on the default revision
list_repo_files(m) == IF m = repo_id THEN {GitAttributes} ELSE models[m]

RECURSIVE Perms(_)
Perms(S) == IF S = {} THEN {<<>>} ELSE UNION {{<<x>> \o p : p \in Perms(S \ {x})} : x \in S}

\* no second monitor, no upload attempt yet, stop_monitor.py not running
NoPeer == [pc |-> "idle", step |-> -1, branch_name |-> None, to_delete |-> <<>>]
NoVersion == [id |-> None, step |-> -1]
Elsewhere ==
    /\ peer = NoPeer
    /\ last_version = NoVersion
    /\ restarts = 0
    /\ spc = "done"
    /\ pids = <<>>
    /\ pid = 0
    /\ poll_i = 0
    /\ success_count = 0
    /\ alive = {}
    /\ permitted = {}
    /\ slog = EmptyMap

----------------------------------------------------------------------------
(* Uploader: upload_checkpoint_to_hf *)

Step(op, ok) == [op |-> op, ok |-> ok]

\* the step that follows `op` in upload_checkpoint_to_hf
NextAfter(op) ==
    CASE op = "ensure_repo" -> "create_branch"
      [] op = "create_branch" -> "upload_iteration"
      [] op = "upload_iteration" -> "upload_folder"
      [] op = "upload_folder" -> "upload_marker"
      [] OTHER -> "cleanup"

\* variant of Abort: the exception of one call is logged and the next step still runs
AbortContinues(op) ==
    /\ trace' = Append(trace, Step(op, FALSE))
    /\ outcome' = "failed"
    /\ pc' = NextAfter(op)

\* the except clause of upload_checkpoint_to_hf: the failing call is the last one made
Abort(op) ==
    /\ trace' = Append(trace, Step(op, FALSE))
    /\ outcome' = "failed"
    /\ pc' = "return"

\* variant of BranchCreatable: create_branch called with exist_ok=True
BranchCreatableExistOk(name) == TRUE

\* api.create_branch without exist_ok: the hub refuses a name that already exists
BranchCreatable(name) == name \notin DOMAIN branches

\* the files a new branch starts with: those of main, from which it is cut
MainFiles == {GitAttributes}

\* variant of upload_source_missing: the warning is printed and the return is missing
upload_source_missing_no_return ==
    /\ pc = "check_folder"
    /\ outcome' = "source_missing"
    /\ pc' = "ensure_repo"
    /\ UNCHANGED <<step, last_step, current_step, branch_name, trace, timestamp_branches,
                   to_delete, keep_count, pass, clock, repo_exists, branches>>
    /\ UNCHANGED beside_monitor

\* folder_path.exists() is false: warn and return before any remote call
upload_source_missing ==
    /\ pc = "check_folder"
    /\ outcome' = "source_missing"
    /\ pc' = "return"
    /\ UNCHANGED <<step, last_step, current_step, branch_name, trace, timestamp_branches,
                   to_delete, keep_count, pass, clock, repo_exists, branches>>
    /\ UNCHANGED beside_monitor

upload_source_present ==
    /\ pc = "check_folder"
    /\ pc' = "ensure_repo"
    /\ UNCHANGED <<step, last_step, current_step, branch_name, outcome, trace,
                   timestamp_branches, to_delete, keep_count, pass, clock,
                   repo_exists, branches>>
    /\ UNCHANGED beside_monitor

\* api.repo_info, and create_repo(exist_ok=True) when repo_info raises
upload_ensure_repo ==
    /\ pc = "ensure_repo"
    /\ \E info_ok, create_ok \in BOOLEAN :
         IF repo_exists /\ info_ok
         THEN /\ trace' = Append(trace, Step("ensure_repo", TRUE))
              /\ pc' = "create_branch"
              /\ UNCHANGED <<outcome, repo_exists>>
         ELSE IF create_ok
         THEN /\ repo_exists' = TRUE
              /\ trace' = Append(trace, Step("ensure_repo", TRUE))
              /\ pc' = "create_branch"
              /\ UNCHANGED outcome
         ELSE /\ Abort("ensure_repo")
              /\ UNCHANGED repo_exists
    /\ UNCHANGED <<step, last_step, current_step, branch_name, timestamp_branches,
                   to_delete, keep_count, pass, clock, branches>>
    /\ UNCHANGED beside_monitor

\* timestamp = datetime.now().strftime(...); api.create_branch(branch=branch_name)
upload_create_branch ==
    /\ pc = "create_branch"
    /\ clock' \in clock..MaxClock
    /\ branch_name' = strftime(clock')
    /\ \E ok \in BOOLEAN :
         IF ok /\ BranchCreatable(branch_name')
         THEN /\ branches' = Put(branches, branch_name', MainFiles)
              /\ trace' = Append(trace, Step("create_branch", TRUE))
              /\ pc' = "upload_iteration"
              /\ UNCHANGED outcome
         ELSE /\ Abort("create_branch")
              /\ UNCHANGED branches
    /\ UNCHANGED <<step, last_step, current_step, timestamp_branches, to_delete,
                   keep_count, pass, repo_exists>>
    /\ last_version' = [id |-> branch_name', step |-> step]
    /\ UNCHANGED <<resolver_side, peer, restarts, stop_vars>>

\* one upload into revision=branch_name: a commit that adds `file`, or an exception
UploadInto(op, file, next) ==
    \E ok \in BOOLEAN :
        IF ok /\ branch_name \in DOMAIN branches
        THEN /\ branches' = [branches EXCEPT ![branch_name] = @ \cup {file}]
             /\ trace' = Append(trace, Step(op, TRUE))
             /\ pc' = next
             /\ UNCHANGED outcome
        ELSE /\ Abort(op)
             /\ UNCHANGED branches

\* api.upload_file(latest_checkpointed_iteration.txt)
upload_iteration ==
    /\ pc = "upload_iteration"
    /\ UploadInto("upload_iteration", IterationFile, "upload_folder")
    /\ UNCHANGED <<step, last_step, current_step, branch_name, timestamp_branches,
                   to_delete, keep_count, pass, clock, repo_exists>>
    /\ UNCHANGED beside_monitor

\* upload_folder(path_in_repo=folder_path.name)
upload_folder ==
    /\ pc = "upload_folder"
    /\ UploadInto("upload_folder", FolderName(step), "upload_marker")
    /\ UNCHANGED <<step, last_step, current_step, branch_name, timestamp_branches,
                   to_delete, keep_count, pass, clock, repo_exists>>
    /\ UNCHANGED beside_monitor

\* api.upload_file(finish_check.txt): the completion marker
upload_marker ==
    /\ pc = "upload_marker"
    /\ \E ok \in BOOLEAN :
         IF ok /\ branch_name \in DOMAIN branches
         THEN /\ branches' = [branches EXCEPT ![branch_name] = @ \cup {FinishCheck}]
              /\ trace' = Append(trace, Step("upload_marker", TRUE))
              /\ outcome' = "success"
              /\ pc' = "cleanup"
         ELSE /\ Abort("upload_marker")
              /\ UNCHANGED branches
    /\ UNCHANGED <<step, last_step, current_step, branch_name, timestamp_branches,
                   to_delete, keep_count, pass, clock, repo_exists>>
    /\ UNCHANGED beside_monitor

----------------------------------------------------------------------------
(* Retention: _cleanup_old_branches *)

TimestampLen == 15
SeparatorIndex == 8
DefaultKeepCount == 3

\* name != "main" and len(name) == 15 and name[8] == '_'   (name[8] is the 9th character)
IsTimestampBranch(name) ==
    /\ name # Main
    /\ Len(name) = TimestampLen
    /\ name[SeparatorIndex + 1] = "_"

RECURSIVE Filter(_)
Filter(listing) ==
    IF listing = <<>> THEN <<>>
    ELSE (IF IsTimestampBranch(Head(listing)) THEN <<Head(listing)>> ELSE <<>>)
           \o Filter(Tail(listing))

\* variant of SliceDropLast: timestamp_branches[keep_count:], the newest selected
SliceDropFirst(list, k) == SubSeq(list, k + 1, Len(list))

\* timestamp_branches[:-keep_count], as Python slices: [:-0] is [:0], the empty list
SliceDropLast(list, k) ==
    IF k = 0 THEN <<>>
    ELSE SubSeq(list, 1, IF Len(list) > k THEN Len(list) - k ELSE 0)

\* if len(timestamp_branches) > keep_count: to_delete = timestamp_branches[:-keep_count]
ToDelete(list, k) == IF Len(list) > k THEN SliceDropLast(list, k) ELSE <<>>

NoPass == [before |-> EmptyMap, failed |-> FALSE, done |-> FALSE,
           selected |-> {}, attempted |-> {}]

Range(list) == {list[i] : i \in 1..Len(list)}

\* refs = api.list_repo_refs(...); filter; sort; choose to_delete
cleanup_list ==
    /\ pc = "cleanup"
    /\ trace' = Append(trace, Step("cleanup", TRUE))
    /\ \E ok \in BOOLEAN :
         IF ok
         THEN \E listing \in Perms(list_repo_refs) :
                /\ timestamp_branches' = sort(Filter(listing))
                /\ to_delete' = ToDelete(timestamp_branches', keep_count)
                /\ pass' = [before |-> branches, failed |-> FALSE,
                            done |-> to_delete' = <<>>,
                            selected |-> Range(to_delete'), attempted |-> {}]
                /\ pc' = IF to_delete' = <<>> THEN "return" ELSE "cleanup_delete"
         ELSE /\ pass' = [before |-> branches, failed |-> TRUE, done |-> TRUE,
                          selected |-> {}, attempted |-> {}]
              /\ pc' = "return"
              /\ UNCHANGED <<timestamp_branches, to_delete>>
    /\ UNCHANGED <<step, last_step, current_step, branch_name, outcome, keep_count,
                   clock, repo_exists, branches>>
    /\ UNCHANGED beside_monitor

\* variant of cleanup_delete: the first failed deletion ends the loop
cleanup_delete_aborts ==
    /\ pc = "cleanup_delete"
    /\ to_delete # <<>>
    /\ \E ok \in BOOLEAN :
         IF ok /\ Head(to_delete) \in DOMAIN branches
         THEN /\ branches' = Remove(branches, Head(to_delete))
              /\ pass' = [pass EXCEPT !.done = Tail(to_delete) = <<>>,
                                      !.attempted = @ \cup {Head(to_delete)}]
              /\ to_delete' = Tail(to_delete)
         ELSE /\ pass' = [pass EXCEPT !.failed = TRUE, !.done = TRUE,
                                      !.attempted = @ \cup {Head(to_delete)}]
              /\ to_delete' = <<>>
              /\ UNCHANGED branches
    /\ pc' = IF to_delete' = <<>> THEN "return" ELSE "cleanup_delete"
    /\ UNCHANGED <<step, last_step, current_step, branch_name, outcome, trace,
                   timestamp_branches, keep_count, clock, repo_exists>>
    /\ UNCHANGED beside_monitor

\* for branch_name in to_delete: api.delete_branch, a failure logged and passed over
cleanup_delete ==
    /\ pc = "cleanup_delete"
    /\ to_delete # <<>>
    /\ \E ok \in BOOLEAN :
         IF ok /\ Head(to_delete) \in DOMAIN branches
         THEN /\ branches' = Remove(branches, Head(to_delete))
              /\ pass' = [pass EXCEPT !.done = Tail(to_delete) = <<>>,
                                      !.attempted = @ \cup {Head(to_delete)}]
         ELSE /\ pass' = [pass EXCEPT !.failed = TRUE, !.done = Tail(to_delete) = <<>>,
                                      !.attempted = @ \cup {Head(to_delete)}]
              /\ UNCHANGED branches
    /\ to_delete' = Tail(to_delete)
    /\ pc' = IF to_delete' = <<>> THEN "return" ELSE "cleanup_delete"
    /\ UNCHANGED <<step, last_step, current_step, branch_name, outcome, trace,
                   timestamp_branches, keep_count, clock, repo_exists>>
    /\ UNCHANGED beside_monitor

----------------------------------------------------------------------------
(* Poll loop: monitor_checkpoints *)

\* variant of StepChanged: a value equal to last_step starts an upload too
StepNotBehind(cur, last) == cur >= last /\ cur # -1

\* variant of StepChanged: any change of the progress value starts an upload
StepDiffers(cur, last) == cur # last

\* if current_step > last_step and current_step != -1
StepChanged(cur, last) == cur > last /\ cur # -1

\* current_step = read_latest_step(input_path), and the test that starts an upload
monitor_read ==
    /\ pc = "loop"
    /\ \E f \in FileContents :
         /\ current_step' = read_latest_step(f)
         /\ IF StepChanged(current_step', last_step)
            THEN /\ pc' = "check_folder"
                 /\ step' = current_step'
                 /\ outcome' = "running"
                 /\ trace' = <<>>
            ELSE /\ pc' = "sleep"
                 /\ UNCHANGED <<step, outcome, trace>>
    /\ UNCHANGED <<last_step, branch_name, timestamp_branches, to_delete,
                   keep_count, pass, clock, repo_exists, branches>>
    /\ UNCHANGED beside_monitor

\* variant of LastStepAfterUpload: the assignment to last_step is missing
LastStepKept == last_step

\* what the loop assigns to last_step once upload_checkpoint_to_hf has returned
LastStepAfterUpload == current_step

\* upload_checkpoint_to_hf has returned (its locals are gone): last_step = current_step
monitor_update ==
    /\ pc = "return"
    /\ last_step' = LastStepAfterUpload
    /\ pc' = "sleep"
    /\ trace' = <<>>
    /\ timestamp_branches' = <<>>
    /\ to_delete' = <<>>
    /\ pass' = NoPass
    /\ UNCHANGED <<step, current_step, branch_name, outcome, keep_count, clock,
                   repo_exists, branches>>
    /\ UNCHANGED beside_monitor

\* time.sleep(check_interval)
monitor_sleep ==
    /\ pc = "sleep"
    /\ pc' = "loop"
    /\ UNCHANGED <<step, last_step, current_step, branch_name, outcome, trace,
                   timestamp_branches, to_delete, keep_count, pass, clock,
                   repo_exists, branches>>
    /\ UNCHANGED beside_monitor

\* the monitor process is ended wherever it is (stop_monitor.py, or an exception that
\* leaves the loop) and started again: last_step = read_latest_step(input_path)
monitor_restart ==
    /\ restarts < MaxRestarts
    /\ restarts' = restarts + 1
    /\ pc' = "loop"
    /\ last_step' \in {read_latest_step(f) : f \in FileContents}
    /\ current_step' = -1
    /\ step' = -1
    /\ branch_name' = <<>>
    /\ outcome' = "none"
    /\ trace' = <<>>
    /\ timestamp_branches' = <<>>
    /\ to_delete' = <<>>
    /\ pass' = NoPass
    /\ UNCHANGED <<keep_count, clock, repo_exists, branches>>
    /\ UNCHANGED <<resolver_side, peer, last_version, stop_vars>>

----------------------------------------------------------------------------
(* Resolver: find_valid_timestamped_repos, get_latest_timestamped_repo *)

\* pattern_prefix = f"{base_repo_name}-"
pattern_prefix == repo_name \o <<"-">>

\* suffix = repo_name[len(pattern_prefix):]
Suffix(modelId) == DropPrefix(split_last(modelId), Len(pattern_prefix))

\* len(suffix) == 15 and suffix[8] == '_' and date_part.isdigit() and time_part.isdigit()
IsTimestamp(suffix) ==
    /\ Len(suffix) = TimestampLen
    /\ suffix[SeparatorIndex + 1] = "_"
    /\ isdigit(SubSeq(suffix, 1, SeparatorIndex))
    /\ isdigit(SubSeq(suffix, SeparatorIndex + 2, Len(suffix)))

\* the name tests a repository passes before its files are listed
IsCandidate(modelId) ==
    /\ startswith(split_last(modelId), pattern_prefix)
    /\ IsTimestamp(Suffix(modelId))

\* variant of HasMarker: a repository counts as valid as soon as it holds uploads
HasUploads(files) == files \ {GitAttributes} # {}

\* if "finish_check.txt" in files
HasMarker(files) == FinishCheck \in files

\* the container of the uploader's last invocation, once it has completed with success
Uploaded ==
    IF outcome = "success" /\ pc \in {"return", "sleep", "loop"} THEN branch_name ELSE None

\* what is recorded of remote failures (any call, and the enumeration of list_models),
\* of the uploader's last container, and of the run before this one
NoRun == [ran |-> FALSE, result |-> None, failed |-> FALSE]
NoLog == [failed |-> FALSE, enum_failed |-> FALSE, uploaded |-> None, prev |-> NoRun]

\* repos = api.list_models(...), or the exception that ends the search at once
resolver_list ==
    /\ rpc = "start"
    /\ valid_repos' = <<>>
    /\ \E ok \in BOOLEAN :
         IF ok
         THEN /\ repos' \in Perms(list_models)
              /\ rpc' = "iterate"
              /\ rlog' = [rlog EXCEPT !.failed = FALSE, !.enum_failed = FALSE,
                                      !.uploaded = Uploaded]
         ELSE /\ repos' = <<>>
              /\ rpc' = "return"
              /\ rlog' = [rlog EXCEPT !.failed = TRUE, !.enum_failed = TRUE,
                                      !.uploaded = Uploaded]
    /\ UNCHANGED <<result, models>>
    /\ UNCHANGED beside_resolver

\* one turn of `for repo in repos`; the listing is lazy and may raise between items
resolver_check ==
    /\ rpc = "iterate"
    /\ repos # <<>>
    /\ \E next_ok, files_ok \in BOOLEAN :
         IF ~next_ok
         THEN /\ rpc' = "return"
              /\ rlog' = [rlog EXCEPT !.failed = TRUE, !.enum_failed = TRUE]
              /\ UNCHANGED <<repos, valid_repos>>
         ELSE /\ repos' = Tail(repos)
              /\ rpc' = "iterate"
              /\ IF IsCandidate(Head(repos))
                 THEN IF files_ok
                      THEN /\ valid_repos' =
                                IF HasMarker(list_repo_files(Head(repos)))
                                THEN Append(valid_repos, <<Suffix(Head(repos)), Head(repos)>>)
                                ELSE valid_repos
                           /\ UNCHANGED rlog
                      ELSE /\ rlog' = [rlog EXCEPT !.failed = TRUE]
                           /\ UNCHANGED valid_repos
                 ELSE UNCHANGED <<valid_repos, rlog>>
    /\ UNCHANGED <<result, models>>
    /\ UNCHANGED beside_resolver

\* variant of resolver_sort: the list is left in the order of the listing
resolver_no_sort ==
    /\ rpc = "iterate"
    /\ repos = <<>>
    /\ rpc' = "return"
    /\ UNCHANGED <<repos, valid_repos, result, rlog, models>>
    /\ UNCHANGED beside_resolver

\* the listing is exhausted: valid_repos.sort(key=lambda x: x[0])
resolver_sort ==
    /\ rpc = "iterate"
    /\ repos = <<>>
    /\ valid_repos' = sort_by_key(valid_repos)
    /\ rpc' = "return"
    /\ UNCHANGED <<repos, result, rlog, models>>
    /\ UNCHANGED beside_resolver

\* variant of Latest: the first element of the sorted list is taken
Oldest(list) == IF list # <<>> THEN list[1][2] ELSE None

\* valid_repos[-1][1] if valid_repos else None
Latest(list) == IF list # <<>> THEN list[Len(list)][2] ELSE None

\* get_latest_timestamped_repo returns
resolver_return ==
    /\ rpc = "return"
    /\ result' = Latest(valid_repos)
    /\ rpc' = "done"
    /\ UNCHANGED <<repos, valid_repos, rlog, models>>
    /\ UNCHANGED beside_resolver

\* get_latest_timestamped_repo is called once more, the store as it was
resolver_again ==
    /\ rpc = "done"
    /\ rlog' = [rlog EXCEPT !.prev = [ran |-> TRUE, result |-> result,
                                      failed |-> rlog.failed]]
    /\ repos' = <<>>
    /\ valid_repos' = <<>>
    /\ rpc' = "start"
    /\ UNCHANGED <<result, models>>
    /\ UNCHANGED beside_resolver

----------------------------------------------------------------------------
(* A second monitor on the same series: its first call of upload_checkpoint_to_hf *)

peer_frame == <<monitor_vars, resolver_side, last_version, restarts, stop_vars>>

\* the exception of a remote call ends the peer's invocation
peer_failed == peer' = [peer EXCEPT !.pc = "done"]

\* api.repo_info / create_repo, for the step the peer has read
peer_ensure_repo ==
    /\ peer.pc = "idle"
    /\ \E f \in FileContents, ok \in BOOLEAN :
         /\ read_latest_step(f) # -1
         /\ IF ok
            THEN /\ repo_exists' = TRUE
                 /\ peer' = [peer EXCEPT !.pc = "create_branch",
                                         !.step = read_latest_step(f)]
            ELSE /\ peer_failed
                 /\ UNCHANGED repo_exists
    /\ UNCHANGED <<pc, last_step, current_step, step, branch_name, outcome, trace,
                   timestamp_branches, to_delete, keep_count, pass, clock, branches>>
    /\ UNCHANGED <<resolver_side, last_version, restarts, stop_vars>>

\* timestamp = datetime.now().strftime(...); api.create_branch(branch=branch_name)
peer_create_branch ==
    /\ peer.pc = "create_branch"
    /\ clock' \in clock..MaxClock
    /\ \E ok \in BOOLEAN :
         IF ok /\ BranchCreatable(strftime(clock'))
         THEN /\ branches' = Put(branches, strftime(clock'), MainFiles)
              /\ peer' = [peer EXCEPT !.pc = "upload_iteration",
                                      !.branch_name = strftime(clock')]
         ELSE /\ peer_failed
              /\ UNCHANGED branches
    /\ UNCHANGED <<pc, last_step, current_step, step, branch_name, outcome, trace,
                   timestamp_branches, to_delete, keep_count, pass, repo_exists>>
    /\ UNCHANGED <<resolver_side, last_version, restarts, stop_vars>>

\* the file the peer uploads at a position, and the position after it
PeerFile ==
    CASE peer.pc = "upload_iteration" -> IterationFile
      [] peer.pc = "upload_folder" -> FolderName(peer.step)
      [] OTHER -> FinishCheck

\* upload_file, upload_folder and the marker upload into revision=branch_name
peer_upload ==
    /\ peer.pc \in {"upload_iteration", "upload_folder", "upload_marker"}
    /\ \E ok \in BOOLEAN :
         IF ok /\ peer.branch_name \in DOMAIN branches
         THEN /\ branches' = [branches EXCEPT ![peer.branch_name] = @ \cup {PeerFile}]
              /\ peer' = [peer EXCEPT !.pc = NextAfter(peer.pc)]
         ELSE /\ peer_failed
              /\ UNCHANGED branches
    /\ UNCHANGED <<pc, last_step, current_step, step, branch_name, outcome, trace,
                   timestamp_branches, to_delete, keep_count, pass, clock, repo_exists>>
    /\ UNCHANGED <<resolver_side, last_version, restarts, stop_vars>>

\* _cleanup_old_branches of the peer: list, filter, sort, choose
peer_cleanup_list ==
    /\ peer.pc = "cleanup"
    /\ \E ok \in BOOLEAN :
         IF ok
         THEN \E listing \in Perms(list_repo_refs) :
                LET chosen == ToDelete(sort(Filter(listing)), DefaultKeepCount)
                IN  peer' = [peer EXCEPT !.to_delete = chosen,
                                        !.pc = IF chosen = <<>> THEN "done"
                                               ELSE "cleanup_delete"]
         ELSE peer_failed
    /\ UNCHANGED peer_frame

\* _cleanup_old_branches of the peer: one turn of the delete loop
peer_cleanup_delete ==
    /\ peer.pc = "cleanup_delete"
    /\ peer.to_delete # <<>>
    /\ \E ok \in BOOLEAN :
         IF ok /\ Head(peer.to_delete) \in DOMAIN branches
         THEN branches' = Remove(branches, Head(peer.to_delete))
         ELSE UNCHANGED branches
    /\ peer' = [peer EXCEPT !.to_delete = Tail(@),
                            !.pc = IF Tail(peer.to_delete) = <<>> THEN "done"
                                   ELSE "cleanup_delete"]
    /\ UNCHANGED <<pc, last_step, current_step, step, branch_name, outcome, trace,
                   timestamp_branches, to_delete, keep_count, pass, clock, repo_exists>>
    /\ UNCHANGED <<resolver_side, last_version, restarts, stop_vars>>

----------------------------------------------------------------------------
(* stop_monitor.py: main, stop_process *)

\* for i in range(10)
PollCount == 10

Pids == 1..MaxPids

\* what stop_process(pid) does is appended to the record of pid
Log(events) == slog' = [slog EXCEPT ![pid] = @ \o events]

\* return True / return False, and main's success_count += 1
Return(v) ==
    /\ success_count' = success_count + (IF v THEN 1 ELSE 0)
    /\ spc' = "next"

\* pids = find_checkpoint_monitor_processes(); if not pids: return False
stop_main ==
    /\ spc = "main"
    /\ spc' = IF pids = <<>> THEN "done" ELSE "next"
    /\ UNCHANGED <<pids, pid, poll_i, success_count, alive, permitted, slog>>
    /\ UNCHANGED <<monitor_vars, resolver_side, peer, last_version, restarts>>

\* for pid in pids: stop_process(pid), and the summary once the list is exhausted
stop_next ==
    /\ spc = "next"
    /\ IF pids = <<>>
       THEN /\ spc' = "done"
            /\ UNCHANGED <<pids, pid, poll_i>>
       ELSE /\ pid' = Head(pids)
            /\ pids' = Tail(pids)
            /\ poll_i' = 0
            /\ spc' = "check"
    /\ UNCHANGED <<success_count, alive, permitted, slog>>
    /\ UNCHANGED <<monitor_vars, resolver_side, peer, last_version, restarts>>

\* os.kill(pid, 0): ProcessLookupError returns True, PermissionError returns False
stop_check ==
    /\ spc = "check"
    /\ IF pid \notin alive
       THEN Log(<<"absent", "true">>) /\ Return(TRUE)
       ELSE IF pid \notin permitted
       THEN Log(<<"denied", "false">>) /\ Return(FALSE)
       ELSE /\ spc' = "term"
            /\ UNCHANGED <<slog, success_count>>
    /\ UNCHANGED <<pids, pid, poll_i, alive, permitted>>
    /\ UNCHANGED <<monitor_vars, resolver_side, peer, last_version, restarts>>

\* os.kill(pid, signal.SIGTERM); a process gone by now raises into `except Exception`
stop_sigterm ==
    /\ spc = "term"
    /\ IF pid \notin alive
       THEN Log(<<"false">>) /\ Return(FALSE)
       ELSE /\ Log(<<"SIGTERM">>)
            /\ spc' = "poll"
            /\ UNCHANGED success_count
    /\ UNCHANGED <<pids, pid, poll_i, alive, permitted>>
    /\ UNCHANGED <<monitor_vars, resolver_side, peer, last_version, restarts>>

\* variant of stop_poll: a poll that finds the process gone does not return
stop_poll_no_return ==
    /\ spc = "poll"
    /\ Log(<<IF pid \in alive THEN "alive" ELSE "gone">>)
    /\ poll_i' = poll_i + 1
    /\ spc' = IF poll_i' = PollCount THEN "kill" ELSE "poll"
    /\ UNCHANGED <<pids, pid, success_count, alive, permitted>>
    /\ UNCHANGED <<monitor_vars, resolver_side, peer, last_version, restarts>>

\* one turn of the wait loop: os.kill(pid, 0), then time.sleep(1) or return True
stop_poll ==
    /\ spc = "poll"
    /\ IF pid \notin alive
       THEN /\ Log(<<"gone", "true">>)
            /\ Return(TRUE)
            /\ UNCHANGED poll_i
       ELSE /\ Log(<<"alive">>)
            /\ poll_i' = poll_i + 1
            /\ spc' = IF poll_i' = PollCount THEN "kill" ELSE "poll"
            /\ UNCHANGED success_count
    /\ UNCHANGED <<pids, pid, alive, permitted>>
    /\ UNCHANGED <<monitor_vars, resolver_side, peer, last_version, restarts>>

\* os.kill(pid, signal.SIGKILL); time.sleep(1); return True, also when it was gone
stop_sigkill ==
    /\ spc = "kill"
    /\ IF pid \notin alive
       THEN /\ Log(<<"true">>)
            /\ UNCHANGED alive
       ELSE /\ Log(<<"SIGKILL", "true">>)
            /\ alive' = alive \ {pid}
    /\ Return(TRUE)
    /\ UNCHANGED <<pids, pid, poll_i, permitted>>
    /\ UNCHANGED <<monitor_vars, resolver_side, peer, last_version, restarts>>

\* a process exits, on the signal it got or for a reason of its own
proc_exit ==
    /\ \E p \in alive : alive' = alive \ {p}
    /\ UNCHANGED <<spc, pids, pid, poll_i, success_count, permitted, slog>>
    /\ UNCHANGED <<monitor_vars, resolver_side, peer, last_version, restarts>>

----------------------------------------------------------------------------
(* The monitor against an initially empty store *)

Init ==
    /\ pc = "loop"
    /\ last_step \in {read_latest_step(f) : f \in FileContents}
    /\ current_step = -1
    /\ step = -1
    /\ branch_name = <<>>
    /\ outcome = "none"
    /\ trace = <<>>
    /\ timestamp_branches = <<>>
    /\ to_delete = <<>>
    /\ keep_count = DefaultKeepCount
    /\ pass = NoPass
    /\ clock = 0
    /\ repo_exists = FALSE
    /\ branches = EmptyMap
    /\ models = EmptyMap
    /\ rpc = "start"
    /\ repos = <<>>
    /\ valid_repos = <<>>
    /\ result = None
    /\ rlog = NoLog
    /\ Elsewhere

Next ==
    \/ monitor_read
    \/ upload_source_missing
    \/ upload_source_present
    \/ upload_ensure_repo
    \/ upload_create_branch
    \/ upload_iteration
    \/ upload_folder
    \/ upload_marker
    \/ cleanup_list
    \/ cleanup_delete
    \/ monitor_update
    \/ monitor_sleep

Spec == Init /\ [][Next]_vars

----------------------------------------------------------------------------
(* The monitor with a resolver run by a separate process on the same store *)

\* the files of a version uploaded to the end, and of one whose marker is missing
Complete == {GitAttributes, IterationFile, FolderName(1), FinishCheck}
Partial == {GitAttributes, IterationFile, FolderName(1)}

\* two monitors on one series. The first is at a tick with one step left to upload;
\* the second has not started its first upload, or is part-way through it; the
\* repository holds the versions earlier invocations completed.
PeerStarted ==
    {[pc |-> "upload_iteration", step |-> 1, branch_name |-> strftime(0),
      to_delete |-> <<>>],
     [pc |-> "upload_folder", step |-> 1, branch_name |-> strftime(0),
      to_delete |-> <<>>]}

PeerBranch(p) ==
    IF p.pc = "upload_iteration" THEN MainFiles ELSE MainFiles \cup {IterationFile}

EarlierBranches(names) == UNION {[S -> {Complete}] : S \in SUBSET names}

ConcurrentInit ==
    /\ pc = "loop"
    /\ last_step = MaxStep - 1
    /\ current_step = -1
    /\ step = -1
    /\ branch_name = <<>>
    /\ outcome = "none"
    /\ trace = <<>>
    /\ timestamp_branches = <<>>
    /\ to_delete = <<>>
    /\ keep_count = DefaultKeepCount
    /\ pass = NoPass
    /\ clock = 2
    /\ \/ /\ peer = NoPeer
          /\ branches \in EarlierBranches({strftime(0), strftime(1), strftime(2)})
       \/ /\ peer \in PeerStarted
          /\ \E earlier \in EarlierBranches({strftime(1), strftime(2)}) :
                branches = Put(earlier, peer.branch_name, PeerBranch(peer))
    /\ repo_exists \in {e \in BOOLEAN : branches # EmptyMap => e}
    /\ models = EmptyMap
    /\ rpc = "start"
    /\ repos = <<>>
    /\ valid_repos = <<>>
    /\ result = None
    /\ rlog = NoLog
    /\ last_version = NoVersion
    /\ restarts = 0
    /\ spc = "done"
    /\ pids = <<>>
    /\ pid = 0
    /\ poll_i = 0
    /\ success_count = 0
    /\ alive = {}
    /\ permitted = {}
    /\ slog = EmptyMap

ConcurrentNext ==
    \/ monitor_read
    \/ upload_source_missing
    \/ upload_source_present
    \/ upload_ensure_repo
    \/ upload_create_branch
    \/ upload_iteration
    \/ upload_folder
    \/ upload_marker
    \/ cleanup_list
    \/ cleanup_delete
    \/ monitor_update
    \/ monitor_sleep
    \/ peer_ensure_repo
    \/ peer_create_branch
    \/ peer_upload
    \/ peer_cleanup_list
    \/ peer_cleanup_delete

ConcurrentSpec == ConcurrentInit /\ [][ConcurrentNext]_vars

\* stop_monitor.py run over the pids it found, each still running or not
StopInit ==
    /\ pc = "loop"
    /\ last_step = -1
    /\ current_step = -1
    /\ step = -1
    /\ branch_name = <<>>
    /\ outcome = "none"
    /\ trace = <<>>
    /\ timestamp_branches = <<>>
    /\ to_delete = <<>>
    /\ keep_count = DefaultKeepCount
    /\ pass = NoPass
    /\ clock = 0
    /\ repo_exists = FALSE
    /\ branches = EmptyMap
    /\ models = EmptyMap
    /\ rpc = "start"
    /\ repos = <<>>
    /\ valid_repos = <<>>
    /\ result = None
    /\ rlog = NoLog
    /\ peer = NoPeer
    /\ last_version = NoVersion
    /\ restarts = 0
    /\ spc = "main"
    /\ pids \in UNION {Perms(S) : S \in SUBSET Pids}
    /\ pid = 0
    /\ poll_i = 0
    /\ success_count = 0
    /\ alive \in SUBSET Pids
    /\ permitted \in SUBSET Pids
    /\ slog = [p \in Pids |-> <<>>]

StopNext ==
    \/ stop_main
    \/ stop_next
    \/ stop_check
    \/ stop_sigterm
    \/ stop_poll
    \/ stop_sigkill
    \/ proc_exit

StopSpec == StopInit /\ [][StopNext]_vars

\* the script keeps running: sleeps end and os.kill returns
StopFairSpec ==
    StopInit /\ [][StopNext]_vars
        /\ WF_vars(stop_main \/ stop_next \/ stop_check \/ stop_sigterm
                     \/ stop_poll \/ stop_sigkill)

\* the monitor stopped and started again any number of times
RestartNext ==
    \/ monitor_read
    \/ upload_source_missing
    \/ upload_source_present
    \/ upload_ensure_repo
    \/ upload_create_branch
    \/ upload_iteration
    \/ upload_folder
    \/ upload_marker
    \/ cleanup_list
    \/ cleanup_delete
    \/ monitor_update
    \/ monitor_sleep
    \/ monitor_restart

RestartSpec == Init /\ [][RestartNext]_vars

RoundTripNext ==
    \/ monitor_read
    \/ upload_source_missing
    \/ upload_source_present
    \/ upload_ensure_repo
    \/ upload_create_branch
    \/ upload_iteration
    \/ upload_folder
    \/ upload_marker
    \/ cleanup_list
    \/ cleanup_delete
    \/ monitor_update
    \/ monitor_sleep
    \/ resolver_list
    \/ resolver_check
    \/ resolver_sort
    \/ resolver_return

RoundTripSpec == Init /\ [][RoundTripNext]_vars

----------------------------------------------------------------------------
(* The resolver against every small store of per-version repositories *)


ModelId(name) == hf_user \o <<"/">> \o name

\* repositories a store of hf_user may hold: three versions of the series, and names
\* that are no version of it (letters in the date, no separator, too short, other series)
Universe ==
    {ModelId(pattern_prefix \o strftime(t)) : t \in 0..2}
        \cup {ModelId(pattern_prefix \o <<"2", "0", "2", "5", "0", "1", "0", "x", "_",
                                         "1", "2", "0", "0", "0", "9">>),
              ModelId(pattern_prefix \o <<"2", "0", "2", "5", "0", "1", "0", "1", "-",
                                         "1", "2", "0", "0", "0", "9">>),
              ModelId(<<"r", "u", "x", "-">> \o strftime(9))}

Stores ==
    UNION {[S -> {Complete, Partial}] :
             S \in {T \in SUBSET Universe : Cardinality(T) <= MaxRepos}}

ResolveInit ==
    /\ pc = "loop"
    /\ last_step = -1
    /\ current_step = -1
    /\ step = -1
    /\ branch_name = <<>>
    /\ outcome = "none"
    /\ trace = <<>>
    /\ timestamp_branches = <<>>
    /\ to_delete = <<>>
    /\ keep_count = DefaultKeepCount
    /\ pass = NoPass
    /\ clock = 0
    /\ repo_exists \in BOOLEAN
    /\ branches = EmptyMap
    /\ models \in Stores
    /\ rpc = "start"
    /\ repos = <<>>
    /\ valid_repos = <<>>
    /\ result = None
    /\ rlog = NoLog
    /\ Elsewhere

ResolveNext ==
    \/ resolver_list
    \/ resolver_check
    \/ resolver_sort
    \/ resolver_return

ResolveSpec == ResolveInit /\ [][ResolveNext]_vars

\* the resolver run again and again over a store nobody changes
RerunNext ==
    \/ resolver_list
    \/ resolver_check
    \/ resolver_sort
    \/ resolver_return
    \/ resolver_again

RerunSpec == ResolveInit /\ [][RerunNext]_vars

----------------------------------------------------------------------------
(* Properties of the uploader and the poll loop *)

\* a branch whose name is a Version Identifier: 8 digits, '_', 6 digits
VersionIdentifier(name) ==
    /\ Len(name) = 15
    /\ \A i \in 1..15 : IF i = 9 THEN name[i] = "_" ELSE isdigit(<<name[i]>>)

Containers(store) == {b \in DOMAIN store : VersionIdentifier(b)}

Marked(store) == {b \in Containers(store) : FinishCheck \in store[b]}

MarkedIsComplete ==
    \A b \in Marked(branches) :
        /\ IterationFile \in branches[b]
        /\ \E n \in 0..MaxStep : FolderName(n) \in branches[b]

NoWriteAfterMarker ==
    \A b \in Marked(branches) : b \in DOMAIN branches' => branches'[b] = branches[b]

\* C1: the completion marker is the last object written to a version container: a
\* container that holds the marker holds the progress file copy and the snapshot
\* folder, and no step changes the files of a container that holds the marker.
C1_MarkerLast == []MarkedIsComplete /\ [][NoWriteAfterMarker]_vars

\* C1 witness: an upload attempt has been turned away from a container that already
\* holds the marker (same second as the earlier upload), and has returned.
C1_Witness ==
    /\ pc = "return"
    /\ outcome = "failed"
    /\ branch_name \in Marked(branches)

\* C2: last_step changes only when the upload attempt that just returned succeeded
\* (its marker was written); after a failed or skipped attempt it keeps its value.
C2_AdvanceOnlyOnSuccess == [][last_step' # last_step => outcome = "success"]_vars

\* C3: when the last upload attempt, for step s, failed, the next read of the progress
\* file that returns s starts a new upload attempt.
C3_RetryAfterFailure ==
    [][(pc = "loop" /\ pc' # "loop" /\ outcome = "failed" /\ current_step' = step)
          => pc' = "check_folder"]_vars

\* C9: an invocation that finds the snapshot directory missing makes no remote call,
\* does not run the retention pass and leaves the remote store as it was.
C9_SourceMissingNoRemote ==
    /\ [](outcome = "source_missing" => trace = <<>> /\ pass = NoPass)
    /\ [][outcome' = "source_missing" => UNCHANGED <<repo_exists, branches>>]_vars

\* C9 witness: the directory was found missing while the store already held a
\* complete version of an earlier step.
C9_Witness ==
    /\ pc = "return"
    /\ outcome = "source_missing"
    /\ Marked(branches) # {}

StepOrder ==
    <<"ensure_repo", "create_branch", "upload_iteration", "upload_folder",
      "upload_marker", "cleanup">>

\* C10: the remote steps of an invocation run in order and a failed one is the last:
\* after a failure no marker is written by the invocation and no retention pass runs.
C10_FailureAborts ==
    /\ Len(trace) <= Len(StepOrder)
    /\ \A i \in 1..Len(trace) : trace[i].op = StepOrder[i]
    /\ \A i \in 1..(Len(trace) - 1) : trace[i].ok
    /\ outcome = "failed" /\ pc = "return" =>
         /\ trace # <<>>
         /\ ~trace[Len(trace)].ok
         /\ pass = NoPass
         /\ (Len(trace) > 2 => branch_name \in DOMAIN branches
                                /\ FinishCheck \notin branches[branch_name])

\* C10 witness: the snapshot folder upload failed after the branch and the progress
\* file had been written.
C10_Witness ==
    /\ pc = "return"
    /\ outcome = "failed"
    /\ Len(trace) = 4
    /\ branch_name \in DOMAIN branches
    /\ IterationFile \in branches[branch_name]

----------------------------------------------------------------------------
(* Properties of the retention pass *)

\* a branch name the retention pass takes for a version
PassesFilter(name) == name # Main /\ Len(name) = 15 /\ name[9] = "_"

\* the passes the retention claims speak of: finished, and no remote call failed
CleanPassDone == pc = "return" /\ pass.done /\ ~pass.failed

\* the k elements of S with the greatest names (all of S when it has no more than k)
Newest(S, k) == {b \in S : Cardinality({o \in S : StrLess(b, o)}) < k}

\* C4: after a retention pass without failure, the valid containers that remain are
\* exactly the keep_count valid containers with the greatest identifiers among those
\* valid before the pass, min(keep_count, valid before) in number.
C4_KeepsNewestValid ==
    CleanPassDone =>
        /\ Marked(branches) = Newest(Marked(pass.before), keep_count)
        /\ Cardinality(Marked(branches))
             = Min(keep_count, Cardinality(Marked(pass.before)))

\* C5: after a retention pass without failure no container without the completion
\* marker remains.
C5_NoUnmarkedLeft == CleanPassDone => Containers(branches) = Marked(branches)

----------------------------------------------------------------------------
(* Properties of the resolver *)

\* the Version Identifier of a repository of the series hf_user/repo_name-<identifier>
IdOf(modelId) == SubSeq(modelId, Len(modelId) - 14, Len(modelId))

InSeries(modelId) ==
    /\ Len(modelId) >= 15
    /\ modelId = hf_user \o <<"/">> \o repo_name \o <<"-">> \o IdOf(modelId)
    /\ VersionIdentifier(IdOf(modelId))

\* the repositories discovery is to choose from
Eligible == {m \in DOMAIN models : InSeries(m) /\ FinishCheck \in models[m]}

\* C6: nothing the resolver collects or returns lacks the completion marker, whatever
\* else the repository holds and whichever remote calls failed.
C6_NeverUnmarked ==
    /\ \A i \in 1..Len(valid_repos) :
         /\ valid_repos[i][2] \in DOMAIN models
         /\ FinishCheck \in models[valid_repos[i][2]]
    /\ rpc = "done" /\ result # None =>
         result \in DOMAIN models /\ FinishCheck \in models[result]

\* C6 witness: the resolver returned a repository although a listing call failed and
\* a newer repository of the series holds snapshot files without the marker.
C6_Witness ==
    /\ rpc = "done"
    /\ result # None
    /\ rlog.failed
    /\ \E m \in DOMAIN models :
         /\ InSeries(m)
         /\ models[m] = Partial
         /\ StrLess(IdOf(result), IdOf(m))

\* C7: without a failing remote call the resolver returns the eligible repository with
\* the greatest Version Identifier, and None exactly when none is eligible.
C7_ReturnsNewestValid ==
    rpc = "done" /\ ~rlog.failed =>
        IF Eligible = {} THEN result = None
        ELSE /\ result \in Eligible
             /\ \A m \in Eligible : m = result \/ StrLess(IdOf(m), IdOf(result))

\* C7 witness: at least two eligible repositories were found and the last of the
\* sorted list returned, while a marked repository outside the series exists.
C7_Witness ==
    /\ rpc = "done"
    /\ ~rlog.failed
    /\ Cardinality(Eligible) >= 2
    /\ Len(valid_repos) >= 2
    /\ result = valid_repos[Len(valid_repos)][2]
    /\ \E m \in DOMAIN models : ~InSeries(m) /\ FinishCheck \in models[m]

\* C8: a resolver run that starts after the uploader has completed with success and
\* meets no failure returns the version container the uploader created.
C8_RoundTrip ==
    rpc = "done" /\ ~rlog.failed /\ rlog.uploaded # None =>
        /\ result # None
        /\ Len(result) >= 15
        /\ IdOf(result) = rlog.uploaded

\* C15: when the enumeration of the owner's repositories raises, at the start or
\* part-way through the iteration, the resolver returns None.
C15_EnumFailureNoResult == rpc = "done" /\ rlog.enum_failed => result = None

----------------------------------------------------------------------------
(* Properties of the poll loop's trigger *)

\* a progress file that is absent or whose stripped text is no decimal number
Unreadable(f) == ~f.exists \/ ~isdigit(strip(f.text))

\* C11: a tick starts an upload only when the step read is greater than last_step and
\* is not -1; an absent or non-numeric progress file reads as -1, and a tick that
\* reads -1 starts no upload and leaves last_step as it was.
C11_TriggerOnlyOnAdvance ==
    /\ [](\A f \in FileContents : Unreadable(f) => read_latest_step(f) = -1)
    /\ [][pc = "loop" /\ pc' = "check_folder"
            => current_step' > last_step /\ current_step' # -1]_vars
    /\ [][pc = "loop" /\ pc' # "loop" /\ current_step' = -1
            => pc' = "sleep" /\ last_step' = last_step]_vars

\* C11 witness: after a successful upload a tick has read -1 and gone to sleep.
C11_Witness ==
    /\ pc = "sleep"
    /\ current_step = -1
    /\ last_step >= 0
    /\ outcome = "success"

\* a tick has read the progress file and goes on to an upload
UploadStarts == pc = "loop" /\ pc' = "check_folder"

\* C21: last_step never decreases; an upload is started only for a step greater than
\* last_step and than every step an upload was started for before, so at most once
\* for a value; a tick that reads a value not above last_step (or -1) starts no
\* upload and leaves last_step as it was.
C21_LastStepMonotone ==
    /\ [][last_step' >= last_step]_vars
    /\ [](pc \in {"loop", "sleep"} => last_step >= step)
    /\ [][UploadStarts => step' > last_step /\ step' > step]_vars
    /\ [][pc = "loop" /\ pc' # "loop" /\ current_step' <= last_step
            => pc' = "sleep" /\ last_step' = last_step]_vars

\* C21 witness: after the upload for a step the progress file reads a smaller step,
\* not -1, and the tick goes to sleep with last_step still at the uploaded step.
C21_Witness ==
    /\ pc = "sleep"
    /\ outcome = "success"
    /\ last_step = step
    /\ current_step >= 0
    /\ current_step < last_step

\* C22: whatever last_step the monitor starts with, the step read at start-up, no
\* upload is ever started for that step or a smaller one, and last_step stays at or
\* above it.
C22_StartStepNeverUploaded ==
    \A s0 \in -1..MaxStep :
        last_step = s0 =>
            [](/\ last_step >= s0
               /\ step # -1 => step > s0
               /\ pc \notin {"loop", "sleep"} => current_step > s0)

\* C22 witness: the monitor started with a step recorded, and the upload for a greater
\* step has begun before anything was created remotely.
C22_Witness ==
    /\ pc = "check_folder"
    /\ last_step >= 0
    /\ step > last_step
    /\ last_version.id = None
    /\ ~repo_exists

----------------------------------------------------------------------------
(* Properties of consecutive upload attempts *)

\* the uploader takes its timestamp for the step the latest attempt was made for
SameStepAgain ==
    /\ pc = "create_branch"
    /\ pc' \in {"upload_iteration", "return"}
    /\ last_version.id # None
    /\ last_version.step = step

\* the branch of this invocation, once its create_branch has succeeded
CreatedHere(b) ==
    /\ b = branch_name
    /\ Len(trace) >= 2
    /\ trace[2].ok

NoWriteIntoEarlier ==
    \A b \in DOMAIN branches \cap DOMAIN branches' :
        branches'[b] # branches[b] => CreatedHere(b)

\* C17: an upload attempt for the step of the attempt before it makes a Version
\* Identifier different from that attempt's, and no attempt changes the files of a
\* branch it did not create.
C17_DistinctVersions ==
    /\ [][SameStepAgain => branch_name' # last_version.id]_vars
    /\ [][NoWriteIntoEarlier]_vars

----------------------------------------------------------------------------
(* Properties of concurrent uploads *)

Uploading == {"upload_iteration", "upload_folder", "upload_marker"}

\* the containers created by an invocation that has not written its marker yet
InFlight ==
    (IF pc \in Uploading THEN {branch_name} ELSE {})
        \cup (IF peer.pc \in Uploading THEN {peer.branch_name} ELSE {})

\* what a pass with window k selects when in-flight containers are not counted
Counted == {b \in DOMAIN branches : PassesFilter(b)} \ InFlight
Prunable(k) == Counted \ Newest(Counted, k)

\* C12: no step deletes a container whose upload is in flight, and a retention pass
\* that lists the branches while an upload is in flight selects what it would select
\* without the in-flight container.
C12_InFlightUntouched ==
    /\ [][\A b \in InFlight : b \in DOMAIN branches => b \in DOMAIN branches']_vars
    /\ [][pc = "cleanup" /\ pc' # "cleanup" /\ ~pass'.failed
            => pass'.selected = Prunable(keep_count)]_vars
    /\ [][peer.pc = "cleanup" /\ peer'.pc = "cleanup_delete"
            => Range(peer'.to_delete) = Prunable(DefaultKeepCount)]_vars

----------------------------------------------------------------------------
(* Properties of stop_process *)

\* SIGKILL comes after SIGTERM and PollCount polls that found the process alive; a
\* poll that finds it gone is followed by `return True` and by nothing else
Escalation(l) ==
    /\ \A k \in 1..Len(l) :
         l[k] = "SIGKILL" =>
             /\ k = PollCount + 2
             /\ l[1] = "SIGTERM"
             /\ \A j \in 2..(PollCount + 1) : l[j] = "alive"
    /\ \A k \in 1..Len(l) :
         l[k] = "gone" =>
             /\ Len(l) = k + 1
             /\ l[k + 1] = "true"
             /\ \A j \in 1..Len(l) : l[j] # "SIGKILL"

\* C19: stop_process sends SIGKILL to a pid only after SIGTERM and ten polls that
\* found it alive, returns True without SIGKILL once a poll finds it gone, and the
\* script comes to its end.
C19_EscalatesInOrder ==
    /\ [](\A p \in DOMAIN slog : Escalation(slog[p]))
    /\ <>(spc = "done")

\* C19 witness: the script has ended, one process was killed after ten polls and
\* another was found gone at a poll.
C19_Witness ==
    /\ spc = "done"
    /\ \E p \in DOMAIN slog : \E k \in 1..Len(slog[p]) : slog[p][k] = "SIGKILL"
    /\ \E p \in DOMAIN slog : \E k \in 1..Len(slog[p]) : slog[p][k] = "gone"

----------------------------------------------------------------------------
(* The retention pass on its own: _cleanup_old_branches called at the end of a
   successful upload, over every prior content of the repository *)

MaxPrior == 3
MaxKeep == 3

\* names with 15 characters and '_' as the ninth that are no timestamp
MalformedOld ==
    <<"2", "0", "2", "4", "0", "1", "0", "x", "_", "1", "2", "0", "0", "0", "0">>
MalformedNew ==
    <<"r", "u", "n", "-", "m", "a", "i", "n", "_", "x", "x", "x", "x", "x", "x">>
ShortName == <<"a", "i", "m">>

\* the branch the invocation created, and the branches the repository may hold
\* besides: older and newer timestamps (local clocks differ), and other names
JustCreated == strftime(1)
PriorNames ==
    {strftime(0), strftime(2), strftime(3), MalformedOld, MalformedNew, ShortName}

PriorBranches ==
    UNION {[S -> {Complete, Partial}] :
             S \in {T \in SUBSET PriorNames : Cardinality(T) <= MaxPrior}}

RetentionInit ==
    /\ pc = "cleanup"
    /\ last_step = 0
    /\ current_step = 1
    /\ step = 1
    /\ branch_name = JustCreated
    /\ outcome = "success"
    /\ trace = [i \in 1..5 |-> Step(StepOrder[i], TRUE)]
    /\ timestamp_branches = <<>>
    /\ to_delete = <<>>
    /\ keep_count \in 0..MaxKeep
    /\ pass = NoPass
    /\ clock = 1
    /\ repo_exists = TRUE
    /\ \E prior \in PriorBranches : branches = Put(prior, JustCreated, Complete)
    /\ models = EmptyMap
    /\ rpc = "start"
    /\ repos = <<>>
    /\ valid_repos = <<>>
    /\ result = None
    /\ rlog = NoLog
    /\ Elsewhere

RetentionNext ==
    \/ cleanup_list
    \/ cleanup_delete

RetentionSpec == RetentionInit /\ [][RetentionNext]_vars

\* C13: a branch whose name is no Version Identifier is never deleted by a retention
\* pass, and with keep_count >= 1 the well-formed containers left by a pass without
\* failure are the keep_count newest well-formed ones, whatever other names exist.
C13_IgnoresMalformed ==
    /\ pass.done =>
         \A b \in DOMAIN pass.before : ~VersionIdentifier(b) => b \in DOMAIN branches
    /\ CleanPassDone /\ keep_count >= 1 =>
         Containers(branches) = Newest(Containers(pass.before), keep_count)

\* C14: for keep_count >= 1 no step of the retention pass deletes the branch the
\* invocation created.
C14_KeepsJustCreated ==
    [][keep_count >= 1 /\ branch_name \in DOMAIN branches
          => branch_name \in DOMAIN branches']_vars

\* the branches the pass takes for versions that sort after the one just created
SortAfter(name) == {b \in DOMAIN branches : PassesFilter(b) /\ StrLess(name, b)}

\* C14 as amended: for keep_count >= 1 no step of the retention pass deletes the
\* branch the invocation created when fewer than keep_count branches with names of 15
\* characters and '_' as the ninth sort after it.
C14_KeepsJustCreatedIfNewest ==
    [][(keep_count >= 1
          /\ branch_name \in DOMAIN branches
          /\ Cardinality(SortAfter(branch_name)) < keep_count)
        => branch_name \in DOMAIN branches']_vars

\* C14 witness: a pass that deleted older branches and kept the one just created
\* though a branch sorting after it exists.
C14_Witness ==
    /\ CleanPassDone
    /\ keep_count >= 2
    /\ pass.attempted # {}
    /\ branch_name \in DOMAIN branches
    /\ SortAfter(branch_name) # {}

\* C18: every branch selected for deletion is attempted whether or not an earlier
\* deletion failed, and the pass returns to the uploader, whose upload stays a success.
C18_PerItemIsolation ==
    /\ pass.attempted \subseteq pass.selected
    /\ pc = "cleanup_delete" => pass.attempted \cup Range(to_delete) = pass.selected
    /\ pass.done =>
         /\ pass.attempted = pass.selected
         /\ pc = "return"
         /\ outcome = "success"

\* C18 witness: a deletion failed and a branch selected after it was deleted.
C18_Witness ==
    /\ pass.done
    /\ \E b \in pass.selected, later \in pass.selected :
         /\ StrLess(b, later)
         /\ b \in DOMAIN branches
         /\ later \notin DOMAIN branches

\* C20: a retention pass with keep_count = 0 and no failing remote call leaves no
\* timestamp-named branch, the one just uploaded included.
C20_KeepZeroDeletesAll ==
    CleanPassDone /\ keep_count = 0 =>
        /\ Containers(branches) = {}
        /\ branch_name \notin DOMAIN branches

============================================================================
